---- MODULE Spec2Model ----
(***************************************************************************)
(* A model of the signal-processing core of resutil/siglib.py: the peak    *)
(* locator find_peak with its cached FPR threshold, and the contrast and   *)
(* signal-to-noise estimators cnr, snr, cnr_by_band and snr_by_band.       *)
(*                                                                         *)
(* Units.  Frequencies are integers in mHz.  PSD values are small          *)
(* integers.  alpha is given in per-mille (10 is 0.01).  Probabilities     *)
(* inside the FPR iteration are binary fixed-point numbers with 30         *)
(* fractional bits.  z-scores are in thousandths.  Array indices are the   *)
(* 0-based indices of the Python source; At(a, i) reads a[i].              *)
(***************************************************************************)
EXTENDS Integers, Sequences, FiniteSets, TLC

VARIABLES
    freq,       \* the frequency axis of the spectrum under analysis
    psd,        \* its power spectral density estimates
    cache,      \* functools.cache of _calc_fpr_normal_threshold
    call,       \* the call in progress or just finished (NoCall when idle)
    outcome,    \* how that call ended (NoOutcome while it runs)
    timeseries, \* the recording handed to fit_sfreq, as its line-noise fit sees it
    sfreq,      \* fit_sfreq: the current estimate of the sampling frequency
    peak_center, \* fit_sfreq: the centre of the most recent fitted peak
    it,         \* fit_sfreq: iterations of the for loop completed
    fits,       \* fit_sfreq: spectral fits performed in the call
    res,        \* fit_sfreq: peak_params.ravel() of the most recent fit
    info_sfreq, \* raw.info["sfreq"] of the recording (0: a bare array, no Raw)
    p_,         \* _calc_fpr_normal_threshold: the per-bin probability p
    q_          \* _calc_fpr_normal_threshold: the family-wise rate of p

vars ==
    <<freq, psd, cache, call, outcome, timeseries, sfreq, peak_center, it, fits, res,
      info_sfreq, p_, q_>>

\* The locals of fit_sfreq and the recording.
calibration == <<timeseries, sfreq, peak_center, it, fits, res, info_sfreq>>

---------------------------------------------------------------------------
(* Bounds of the model. *)

NBins == 10         \* length of the enumerated spectra
MaxIter == 300      \* FPR iterations followed before the loop counts as not ending

---------------------------------------------------------------------------
(* Generic helpers. *)

Abs(x) == IF x < 0 THEN 0 - x ELSE x

At(a, i) == a[i + 1]

\* numpy indexing with a possibly negative index: a[i] for -len <= i < len.
InRange(a, i) == (0 - Len(a)) <= i /\ i < Len(a)

PyAt(a, i) == IF i < 0 THEN a[Len(a) + i + 1] ELSE a[i + 1]

RECURSIVE SumSeq(_)
SumSeq(s) == IF s = <<>> THEN 0 ELSE Head(s) + SumSeq(Tail(s))

RECURSIVE SumSqSeq(_)
SumSqSeq(s) == IF s = <<>> THEN 0 ELSE Head(s) * Head(s) + SumSqSeq(Tail(s))

\* n * sum(x^2) - sum(x)^2 = n^2 * var(x): the population variance that np.std
\* (ddof = 0) takes the root of, kept as an integer.
VarNum(s) == Len(s) * SumSqSeq(s) - SumSeq(s) * SumSeq(s)

---------------------------------------------------------------------------
(* Fixed-point arithmetic: a probability x is the integer x * 2^30. Products *)
(* are formed from 15-bit halves so that no intermediate value leaves the   *)
(* 32-bit integers.                                                         *)

Half == 2^15

Scale == 2^30

\* floor(a * b / 2^30) for 0 <= a, b <= 2^30
MulFix(a, b) ==
    LET a1 == a \div Half
        a0 == a % Half
        b1 == b \div Half
        b0 == b % Half
    IN  a1 * b1 + (a1 * b0 + a0 * b1 + (a0 * b0) \div Half) \div Half

RECURSIVE PowFix(_, _)
PowFix(x, n) == IF n = 0 THEN Scale ELSE MulFix(PowFix(x, n - 1), x)

\* Binary long division of the 60-bit number hi * 2^30 + lo by q, bit k downwards.
RECURSIVE LongDiv(_, _, _, _, _)
LongDiv(r, lo, k, q, acc) ==
    IF k < 0 THEN acc
    ELSE LET t == 2 * r + ((lo \div (2^k)) % 2)
         IN  IF t >= q THEN LongDiv(t - q, lo, k - 1, q, 2 * acc + 1)
                       ELSE LongDiv(t, lo, k - 1, q, 2 * acc)

\* floor(p * p / q) in fixed point, for 0 < p < 2^30 and 0 < q <= 2^30;
\* a quotient of 1.0 or more is reported as 2^30 (p then leaves (0, 1)).
SqDiv(p, q) ==
    LET p1 == p \div Half
        p0 == p % Half
        m == 2 * p1 * p0
        loRaw == (m % Half) * Half + p0 * p0
        lo == loRaw % Scale
        hi == p1 * p1 + m \div Half + loRaw \div Scale
    IN  IF hi >= q THEN Scale ELSE LongDiv(hi, lo, 29, q, 0)

\* alpha in per-mille as a fixed-point probability: floor(a * 2^30 / 1000)
AlphaFix(a) == a * 1073741 + (a * 824) \div 1000

---------------------------------------------------------------------------
(* scipy.stats.binom.pmf(k=0, n, p) = (1 - p)^n and scipy.stats.norm.ppf.   *)

binom_pmf0(n, p) == PowFix(Scale - p, n)

\* Breakpoints <<p * 2^20, 1000 * norm.ppf(1 - p)>> of the upper-tail quantile.
PpfTable ==
    <<
       <<96, 3741>>, <<106, 3716>>, <<116, 3693>>, <<128, 3668>>,
       <<141, 3644>>, <<155, 3619>>, <<170, 3595>>, <<187, 3570>>,
       <<206, 3545>>, <<226, 3520>>, <<249, 3495>>, <<274, 3469>>,
       <<301, 3444>>, <<331, 3418>>, <<365, 3391>>, <<401, 3365>>,
       <<441, 3339>>, <<485, 3312>>, <<534, 3285>>, <<587, 3259>>,
       <<646, 3231>>, <<710, 3204>>, <<781, 3177>>, <<860, 3149>>,
       <<946, 3121>>, <<1040, 3093>>, <<1144, 3064>>, <<1259, 3036>>,
       <<1384, 3007>>, <<1523, 2978>>, <<1675, 2948>>, <<1843, 2919>>,
       <<2027, 2889>>, <<2230, 2859>>, <<2453, 2828>>, <<2698, 2798>>,
       <<2968, 2767>>, <<3264, 2736>>, <<3591, 2704>>, <<3950, 2672>>,
       <<4345, 2640>>, <<4779, 2608>>, <<5257, 2575>>, <<5783, 2542>>,
       <<6361, 2508>>, <<6997, 2474>>, <<7697, 2440>>, <<8467, 2406>>,
       <<9314, 2370>>, <<10245, 2335>>, <<11270, 2299>>, <<12396, 2263>>,
       <<13636, 2226>>, <<15000, 2189>>, <<16500, 2151>>, <<18150, 2113>>,
       <<19965, 2074>>, <<21961, 2035>>, <<24157, 1995>>, <<26573, 1954>>,
       <<29230, 1913>>, <<32153, 1871>>, <<35369, 1829>>, <<38905, 1785>>,
       <<42796, 1741>>, <<47076, 1697>>, <<51783, 1651>>, <<56961, 1604>>,
       <<62658, 1557>>, <<68923, 1508>>, <<75816, 1459>>, <<83397, 1408>>,
       <<91737, 1356>>, <<100911, 1303>>, <<111002, 1249>>, <<122102, 1193>>,
       <<134312, 1135>>, <<147743, 1076>>, <<162518, 1015>>, <<178769, 952>>,
       <<196646, 887>>, <<216311, 819>>, <<237942, 749>>, <<261736, 676>>,
       <<287910, 599>>, <<316701, 519>>, <<348371, 434>>, <<383208, 344>>,
       <<421529, 248>>, <<463682, 145>>, <<510050, 34>>, <<524288, 0>>
    >>

PpfSegment(pp) ==
    CHOOSE i \in 1..(Len(PpfTable) - 1) : PpfTable[i][1] <= pp /\ pp <= PpfTable[i + 1][1]

\* Linear interpolation in PpfTable, for PpfTable[1][1] <= pp <= 2^19.
PpfTail(pp) ==
    LET i == PpfSegment(pp)
        p0 == PpfTable[i][1]
        z0 == PpfTable[i][2]
        p1 == PpfTable[i + 1][1]
        z1 == PpfTable[i + 1][2]
    IN  z0 - ((z0 - z1) * (pp - p0)) \div (p1 - p0)

\* 1000 * norm.ppf(1 - p) for a fixed-point probability 0 < p < 2^30.
norm_ppf_upper(p) ==
    LET pp == p \div 1024
        lowest == PpfTable[1][1]
    IN  IF pp > 2^19 THEN 0 - PpfTail(IF 2^20 - pp < lowest THEN lowest ELSE 2^20 - pp)
        ELSE IF pp < lowest THEN PpfTable[1][2]
        ELSE PpfTail(pp)

---------------------------------------------------------------------------
(* _calc_fpr_normal_threshold(alpha, n, stopping_crit = 0.0001).            *)

\* A variant of the stopping criterion: 0.01 instead of 0.0001.
LooseCrit == Scale \div 100

StoppingCrit == Scale \div 10000

\* One pass of the while loop of lines 237-244 on the loop state s: the test
\* of the loop condition and, when it holds, the body.
FprStep(alpha, n, s) ==
    LET dif == s.q - alpha
    IN  IF s.kind # "run" THEN s
        ELSE IF ~(Abs(dif) > StoppingCrit) THEN [s EXCEPT !.kind = "ok"]
        ELSE IF s.q <= 0 THEN [s EXCEPT !.kind = "nan"]
        ELSE LET step == SqDiv(s.p, s.q)
                 p2 == IF dif > 0 THEN s.p - step ELSE s.p + step
             IN  IF p2 <= 0 \/ p2 >= Scale
                 THEN [kind |-> "nan", p |-> p2, q |-> s.q, its |-> s.its + 1]
                 ELSE [kind |-> "run", p |-> p2, q |-> Scale - binom_pmf0(n, p2),
                       its |-> s.its + 1]

\* k passes of the loop, by halving (which keeps the evaluation shallow).
RECURSIVE FprLoop(_, _, _, _)
FprLoop(alpha, n, s, k) ==
    IF k = 0 THEN s
    ELSE IF k = 1 THEN FprStep(alpha, n, s)
    ELSE LET mid == FprLoop(alpha, n, s, k \div 2)
         IN  IF mid.kind # "run" THEN mid ELSE FprLoop(alpha, n, mid, k - k \div 2)

\* An uncached evaluation: kind "ok" with the z-score in thousandths, "hang"
\* when the loop is still running after MaxIter passes, "nan" when p leaves
\* the open interval from 0 to 1.
_calc_fpr_normal_threshold(a, n) ==
    LET alpha == AlphaFix(a)
        s0 == [kind |-> "run", p |-> alpha, q |-> Scale - binom_pmf0(n, alpha), its |-> 0]
        r == FprLoop(alpha, n, s0, MaxIter + 1)
    IN  [kind |-> IF r.kind = "run" THEN "hang" ELSE r.kind,
         z |-> IF r.kind = "ok" THEN norm_ppf_upper(r.p) ELSE 0,
         p |-> r.p,
         its |-> r.its]

---------------------------------------------------------------------------
(* The inputs enumerated by the model. *)

\* Frequency resolutions in mHz: 0.2 Hz holds 5, 2, 1 and 0 bins of them.
Resolutions == {40, 100, 150, 250}

FreqStart == 39 * 1000

SpikeHeights == {4, 5}

\* Caller-supplied search_width values in mHz (0.2 Hz is the default).
SearchWidths == {200, 500}

\* Caller-supplied alpha values in per-mille (0.01 is the default).
Alphas == {10, 500}

UniformFreq(start, r, n) == [k \in 1..n |-> start + (k - 1) * r]

\* A flat spectrum of level 1 with the bins i and j (1-based, possibly the same or 0 for
\* none) raised to hi and hj.
SpikedPsd(n, i, hi, j, hj) ==
    [k \in 1..n |-> IF k = j THEN hj ELSE IF k = i THEN hi ELSE 1]

EnumeratedPsds ==
    {SpikedPsd(NBins, i, hi, j, hj) :
        i \in 0..NBins, hi \in SpikeHeights, j \in 0..NBins, hj \in SpikeHeights}

\* The concrete scenario: 35.0, 35.1, ..., 45.0 Hz, all 1.0 except 4.0 at
\* index 50, the 40.0 Hz bin.
ScenarioFreq == UniformFreq(35 * 1000, 100, 101)

ScenarioPsd == [k \in 1..101 |-> IF k = 51 THEN 4 ELSE 1]

Spectra ==
    {<<UniformFreq(FreqStart, r, NBins), p>> : r \in Resolutions, p \in EnumeratedPsds}
        \cup {<<ScenarioFreq, ScenarioPsd>>}

\* Expected peak frequencies offered for a frequency axis: every bin of the
\* enumerated spectra and the points half-way between bins 0 and 1, 4 and 5,
\* 5 and 6; for the scenario, the bins around 40 Hz.
PeakFreqs(f) ==
    IF Len(f) > NBins + 1
    THEN {At(f, i) : i \in 48..52}
    ELSE {At(f, i) : i \in 0..(Len(f) - 1)}
            \cup {(At(f, i) + At(f, i + 1)) \div 2 : i \in {0, 4, 5}}

---------------------------------------------------------------------------
(* find_peak(freq, psd, peak_freq, search_width = 0.2, alpha = 0.01).       *)

\* Line 173: the parameter is overwritten with 0.2 Hz before its first use.
HardSearchWidth == 200

\* A variant of the tie rule: the last index of the minimum instead of the first.
argmin_last(f, pf) ==
    CHOOSE i \in 0..(Len(f) - 1) :
        /\ \A j \in 0..(Len(f) - 1) : Abs(At(f, i) - pf) <= Abs(At(f, j) - pf)
        /\ \A j \in (i + 1)..(Len(f) - 1) : Abs(At(f, j) - pf) > Abs(At(f, i) - pf)

\* np.argmin(abs(freq - peak_freq)): the first index of the minimum.
argmin_abs_diff(f, pf) ==
    CHOOSE i \in 0..(Len(f) - 1) :
        /\ \A j \in 0..(Len(f) - 1) : Abs(At(f, i) - pf) <= Abs(At(f, j) - pf)
        /\ \A j \in 0..(i - 1) : Abs(At(f, j) - pf) > Abs(At(f, i) - pf)

freq_resolution(f) == At(f, 1) - At(f, 0)

\* Lines 173-174: search_samples = int(search_width / freq_resolution), with
\* search_width already replaced; the caller's value sw is not read.
search_samples(f, sw) == HardSearchWidth \div freq_resolution(f)

\* Line 182: np.arange(exp_peak_idx - search_samples, exp_peak_idx + search_samples)
peak_range(e, s) == [k \in 1..(2 * s) |-> e - s + (k - 1)]

\* Lines 185 and 193: psd[peak_range], negative indices counting from the end.
Window(p, rng) == [k \in 1..Len(rng) |-> PyAt(p, rng[k])]

\* scipy.signal.find_peaks without conditions: in a run x[i..j-1] of equal
\* samples entered by a rise and left by a fall, the middle sample (rounded
\* down); the first and the last sample are never peaks.
PlateauEnd(x, i) ==
    CHOOSE j \in (i + 1)..(Len(x) - 1) :
        /\ At(x, j) # At(x, i) \/ j = Len(x) - 1
        /\ \A k \in (i + 1)..(j - 1) : At(x, k) = At(x, i)

local_maxima(x) ==
    {(i + PlateauEnd(x, i) - 1) \div 2 :
        i \in {i \in 1..(Len(x) - 2) :
                  At(x, i - 1) < At(x, i) /\ At(x, PlateauEnd(x, i)) < At(x, i)}}

\* The sign of a2 * 10^6 - z2 * d for 0 <= a2, z2 and 0 <= d <= 2147, formed
\* without leaving the 32-bit integers.
CmpMillion(a2, z2, d) ==
    LET big == 1000 * 1000
        l == a2 - (z2 \div big) * d
        rd == (z2 % big) * d
    IN  IF l <= 0 THEN (IF l = 0 /\ rd = 0 THEN 0 ELSE 0 - 1)
        ELSE IF l >= d THEN 1
        ELSE IF l * big > rd THEN 1
        ELSE IF l * big = rd THEN 0
        ELSE 0 - 1

\* Lines 188-190 and the height condition of find_peaks:
\* v >= mean(w) + z/1000 * std(w), decided exactly on integers
\* (n * v - sum >= z/1000 * sqrt(n * sumsq - sum^2)).
reaches_height(v, w, z) ==
    LET a == Len(w) * v - SumSeq(w)
        c == CmpMillion(a * a, z * z, VarNum(w))
    IN  IF z >= 0 THEN a >= 0 /\ c >= 0
        ELSE a >= 0 \/ c <= 0

\* The peaks find_peaks(window, height=height) reports, as window indices.
qualifying_peaks(w, thr) ==
    IF thr.kind # "ok" THEN {}
    ELSE {i \in local_maxima(w) : reaches_height(At(w, i), w, thr.z)}

\* Variants of the selection among the reported peaks: peaks[0], and the
\* first of the lowest.
first_peak(w, pk) == CHOOSE i \in pk : \A j \in pk : i <= j

lowest_peak(w, pk) ==
    CHOOSE i \in pk :
        /\ \A j \in pk : At(w, j) >= At(w, i)
        /\ \A j \in pk : j < i => At(w, j) > At(w, i)

\* peaks[np.argmax(props["peak_heights"])]: the first of the highest.
highest_peak(w, pk) ==
    CHOOSE i \in pk :
        /\ \A j \in pk : At(w, j) <= At(w, i)
        /\ \A j \in pk : j < i => At(w, j) < At(w, i)

\* A variant of find_peak whose fallback hands back peak_freq as given, not
\* the frequency of the bin nearest to it.
find_peak_unsnapped(f, p, pf, sw, thr) ==
    LET s == search_samples(f, sw)
        e == argmin_abs_diff(f, pf)
        rng == peak_range(e, s)
        w == Window(p, rng)
        pk == qualifying_peaks(w, thr)
    IN  IF ~(s > 0) THEN [kind |-> "ValueError", value |-> 0]
        ELSE IF \E k \in 1..Len(rng) : ~InRange(p, rng[k])
        THEN [kind |-> "IndexError", value |-> 0]
        ELSE IF thr.kind = "hang" THEN [kind |-> "hang", value |-> 0]
        ELSE IF pk # {} THEN [kind |-> "value", value |-> PyAt(f, rng[highest_peak(w, pk) + 1])]
        ELSE [kind |-> "value", value |-> pf]

\* The body of find_peak from line 170 to the return, given the cached or
\* freshly computed threshold thr for (alpha, 2 * search_samples).  The
\* result names how the call ends: a returned frequency, the ValueError of
\* line 180, the IndexError of psd[peak_range] past the end of the array, or
\* no end at all when the threshold computation does not end.
find_peak(f, p, pf, sw, thr) ==
    LET s == search_samples(f, sw)
        e == argmin_abs_diff(f, pf)
        rng == peak_range(e, s)
        w == Window(p, rng)
        pk == qualifying_peaks(w, thr)
        peak_bin == IF pk # {} THEN rng[highest_peak(w, pk) + 1] ELSE e
    IN  IF ~(s > 0) THEN [kind |-> "ValueError", value |-> 0]
        ELSE IF \E k \in 1..Len(rng) : ~InRange(p, rng[k])
        THEN [kind |-> "IndexError", value |-> 0]
        ELSE IF thr.kind = "hang" THEN [kind |-> "hang", value |-> 0]
        ELSE [kind |-> "value", value |-> PyAt(f, peak_bin)]

\* Whether the call reaches line 188, where the threshold is asked for.
asks_threshold(f, p, pf, sw) ==
    LET s == search_samples(f, sw)
        rng == peak_range(argmin_abs_diff(f, pf), s)
    IN  s > 0 /\ \A k \in 1..Len(rng) : InRange(p, rng[k])

---------------------------------------------------------------------------
(* _cnr and _snr (lines 120-135 and 317-331) and their wrappers.  A result  *)
(* is kept exact: a contrast is num / sqrt(rad), a ratio is num / den.      *)
(* With numba the jitted division by zero raises ZeroDivisionError; without *)
(* it (the fallback decorator of lines 23-32) numpy returns inf or nan.     *)

\* A variant of the noise selection that keeps the peak bin.
with_peak_bin(p, k) == p

\* psd[not_peak_indicator]: the sequence without the element at index k.
without_index(p, k) ==
    [i \in 1..(Len(p) - 1) |-> IF i <= k THEN p[i] ELSE p[i + 1]]

\* x / 0 in float arithmetic, or the exception of the jitted build.
division_by_zero(x, numba) ==
    IF numba THEN [kind |-> "ZeroDivisionError"]
    ELSE IF x > 0 THEN [kind |-> "inf"]
    ELSE IF x < 0 THEN [kind |-> "-inf"]
    ELSE [kind |-> "nan"]

\* np.mean of an empty selection.
mean_of_nothing(numba) ==
    IF numba THEN [kind |-> "ZeroDivisionError"] ELSE [kind |-> "nan"]

\* (psd[peak_idx] - mu) / sigma with mu = sum / m and sigma = sqrt(rad) / m.
_cnr(f, p, pf, numba) ==
    IF Len(f) = 0 THEN [kind |-> "ValueError"]
    ELSE LET peak_idx == argmin_abs_diff(f, pf)
             noise == without_index(p, peak_idx)
             num == Len(noise) * At(p, peak_idx) - SumSeq(noise)
             rad == VarNum(noise)
         IN  IF Len(noise) = 0 THEN mean_of_nothing(numba)
             ELSE IF rad = 0 THEN division_by_zero(num, numba)
             ELSE [kind |-> "value", value |-> [num |-> num, rad |-> rad]]

\* A variant of _snr that takes the mean off the peak value first.
snr_above_mean(f, p, pf, numba) ==
    IF Len(f) = 0 THEN [kind |-> "ValueError"]
    ELSE LET peak_idx == argmin_abs_diff(f, pf)
             noise == without_index(p, peak_idx)
             num == Len(noise) * At(p, peak_idx) - SumSeq(noise)
             den == SumSeq(noise)
         IN  IF Len(noise) = 0 THEN mean_of_nothing(numba)
             ELSE IF den = 0 THEN division_by_zero(num, numba)
             ELSE [kind |-> "value", value |-> [num |-> num, den |-> den]]

\* psd[peak_idx] / mu with mu = sum / m.
_snr(f, p, pf, numba) ==
    IF Len(f) = 0 THEN [kind |-> "ValueError"]
    ELSE LET peak_idx == argmin_abs_diff(f, pf)
             noise == without_index(p, peak_idx)
             num == Len(noise) * At(p, peak_idx)
             den == SumSeq(noise)
         IN  IF Len(noise) = 0 THEN mean_of_nothing(numba)
             ELSE IF den = 0 THEN division_by_zero(num, numba)
             ELSE [kind |-> "value", value |-> [num |-> num, den |-> den]]

cnr(f, p, pf, numba) == _cnr(f, p, pf, numba)

snr(f, p, pf, numba) == _snr(f, p, pf, numba)

\* A variant of the band mask that leaves out a bin on the upper limit.
RECURSIVE in_band_open(_, _, _)
in_band_open(a, f, band) ==
    IF f = <<>> THEN <<>>
    ELSE (IF Head(f) < band[1] \/ Head(f) >= band[2] THEN <<>> ELSE <<Head(a)>>)
            \o in_band_open(Tail(a), Tail(f), band)

\* Lines 80-84 and 283-287: the bins with band[0] <= freq <= band[1], in order.
RECURSIVE in_band(_, _, _)
in_band(a, f, band) ==
    IF f = <<>> THEN <<>>
    ELSE (IF Head(f) < band[1] \/ Head(f) > band[2] THEN <<>> ELSE <<Head(a)>>)
            \o in_band(Tail(a), Tail(f), band)

cnr_by_band(f, p, pf, band, numba) ==
    cnr(in_band(f, f, band), in_band(p, f, band), pf, numba)

snr_by_band(f, p, pf, band, numba) ==
    snr(in_band(f, f, band), in_band(p, f, band), pf, numba)

\* Band limits offered for a frequency axis: bins 2 to 6 with both limits on
\* bins, the single bin 4, and an interval between two bins.
Bands(f) ==
    {<<At(f, 2), At(f, 6)>>, <<At(f, 4), At(f, 4)>>, <<At(f, 4) + 1, At(f, 4) + 2>>}

---------------------------------------------------------------------------
(* The cache of _calc_fpr_normal_threshold (functools.cache, line 207).     *)

WindowSizes == {2 * (HardSearchWidth \div r) : r \in Resolutions \cup {100}} \ {0}

\* Every threshold the enumerated calls can ask for, evaluated once, as pairs
\* <<key, result>>.
FprRows ==
    {<<k, _calc_fpr_normal_threshold(k[1], k[2])>> : k \in Alphas \X WindowSizes}

FprTable == [k \in Alphas \X WindowSizes |-> (CHOOSE r \in FprRows : r[1] = k)[2]]

\* What the decorated function hands back with cache c.
cached_threshold(c, a, n) ==
    IF <<a, n>> \in DOMAIN c THEN c[<<a, n>>] ELSE FprTable[<<a, n>>]

\* A variant of the cache that keeps the latest result only.
cache_latest_only(c, a, n) ==
    IF FprTable[<<a, n>>].kind = "hang" THEN c
    ELSE [k \in {<<a, n>>} |-> FprTable[<<a, n>>]]

\* The cache after the call: a result is stored when the call returns.
cache_after(c, a, n) ==
    IF <<a, n>> \in DOMAIN c \/ FprTable[<<a, n>>].kind = "hang" THEN c
    ELSE [k \in DOMAIN c \cup {<<a, n>>} |->
             IF k = <<a, n>> THEN FprTable[<<a, n>>] ELSE c[k]]

---------------------------------------------------------------------------
(* The state machine: one call at a time on the spectrum under analysis.    *)

NoCall == [op |-> "none"]

NoOutcome == [kind |-> "none"]

EmptyCache == [k \in {} |-> 0]

\* +inf of line 421, as an integer above every frequency of the model.
Inf == 2^30

\* No recording and the locals of fit_sfreq as a call starts with them.
NoRecording == [kind |-> "none"]

NoCalibration ==
    /\ timeseries = NoRecording
    /\ sfreq = 0
    /\ peak_center = Inf
    /\ it = 0
    /\ fits = 0
    /\ res = <<>>
    /\ info_sfreq = 0

Init ==
    /\ \E sp \in Spectra : freq = sp[1] /\ psd = sp[2]
    /\ cache = EmptyCache
    /\ p_ = 0
    /\ q_ = 0
    /\ call = NoCall
    /\ outcome = NoOutcome
    /\ NoCalibration

\* A spectrum of level base with bin i (1-based, 0 for none) raised to hi:
\* noise of mean zero or below, as a normalised or centred spectrum holds.
LevelPsd(n, base, i, hi) == [k \in 1..n |-> IF k = i THEN hi ELSE base]

NoiseLevels == {0, 0 - 1}

\* The estimators do not read the resolution: one frequency axis per length,
\* with the spiked spectra and the spectra of the other noise levels.
RatioSpectra ==
    {sp \in Spectra : freq_resolution(sp[1]) = 100}
        \cup {<<UniformFreq(FreqStart, 100, NBins), LevelPsd(NBins, b, i, 4)>> :
                  b \in NoiseLevels, i \in 0..NBins}

InitRatio ==
    /\ \E sp \in RatioSpectra : freq = sp[1] /\ psd = sp[2]
    /\ cache = EmptyCache
    /\ p_ = 0
    /\ q_ = 0
    /\ call = NoCall
    /\ outcome = NoOutcome
    /\ NoCalibration

Idle == call = NoCall

FindPeak(pf, sw, a) ==
    /\ Idle
    /\ call' = [op |-> "find_peak", peak_freq |-> pf, search_width |-> sw, alpha |-> a]
    /\ LET n == 2 * search_samples(freq, sw)
           asks == asks_threshold(freq, psd, pf, sw)
           thr == IF asks THEN cached_threshold(cache, a, n) ELSE [kind |-> "unused"]
       IN  /\ outcome' = find_peak(freq, psd, pf, sw, thr)
           /\ cache' = IF asks THEN cache_after(cache, a, n) ELSE cache
    /\ UNCHANGED <<p_, q_, freq, psd, calibration>>

Cnr(pf, numba) ==
    /\ Idle
    /\ call' = [op |-> "cnr", peak_freq |-> pf]
    /\ outcome' = cnr(freq, psd, pf, numba)
    /\ UNCHANGED <<p_, q_, freq, psd, cache, calibration>>

Snr(pf, numba) ==
    /\ Idle
    /\ call' = [op |-> "snr", peak_freq |-> pf]
    /\ outcome' = snr(freq, psd, pf, numba)
    /\ UNCHANGED <<p_, q_, freq, psd, cache, calibration>>

CnrByBand(pf, band, numba) ==
    /\ Idle
    /\ call' = [op |-> "cnr_by_band", peak_freq |-> pf, band_limits |-> band]
    /\ outcome' = cnr_by_band(freq, psd, pf, band, numba)
    /\ UNCHANGED <<p_, q_, freq, psd, cache, calibration>>

SnrByBand(pf, band, numba) ==
    /\ Idle
    /\ call' = [op |-> "snr_by_band", peak_freq |-> pf, band_limits |-> band]
    /\ outcome' = snr_by_band(freq, psd, pf, band, numba)
    /\ UNCHANGED <<p_, q_, freq, psd, cache, calibration>>

\* The caller takes the result; a call that does not end is never left.
Return ==
    /\ ~Idle
    /\ call.op # "fit_mne_sfreq"
    /\ outcome.kind \notin {"hang", "none"}
    /\ call' = NoCall
    /\ outcome' = NoOutcome
    /\ UNCHANGED <<p_, q_, freq, psd, cache, calibration>>

NextPeak ==
    \/ \E pf \in PeakFreqs(freq), sw \in SearchWidths, a \in Alphas : FindPeak(pf, sw, a)
    \/ Return

NextRatio ==
    \/ \E pf \in PeakFreqs(freq), numba \in BOOLEAN : Cnr(pf, numba)
    \/ \E pf \in PeakFreqs(freq), numba \in BOOLEAN : Snr(pf, numba)
    \/ \E pf \in PeakFreqs(freq), band \in Bands(freq), numba \in BOOLEAN :
            CnrByBand(pf, band, numba)
    \/ \E pf \in PeakFreqs(freq), band \in Bands(freq), numba \in BOOLEAN :
            SnrByBand(pf, band, numba)
    \/ Return

Next == NextPeak \/ NextRatio

\* Calls of find_peak alone, calls of the estimators alone, and all calls.
SpecPeak == Init /\ [][NextPeak]_vars

SpecRatio == InitRatio /\ [][NextRatio]_vars

\* Calls of the by-band estimators alone, with a band that starts between two
\* bins and a peak_freq just above that limit.
BandLimits(f) == Bands(f) \cup {<<At(f, 4) + 1, At(f, 6)>>}

BandPeakFreqs(f) == PeakFreqs(f) \cup {At(f, 4) + 2}

NextBand ==
    \/ \E pf \in BandPeakFreqs(freq), band \in BandLimits(freq), numba \in BOOLEAN :
            CnrByBand(pf, band, numba)
    \/ \E pf \in BandPeakFreqs(freq), band \in BandLimits(freq), numba \in BOOLEAN :
            SnrByBand(pf, band, numba)
    \/ Return

SpecBand == InitRatio /\ [][NextBand]_vars

Spec == Init /\ [][Next]_vars

---------------------------------------------------------------------------
(* fit_sfreq: the empirical sampling frequency from the mains line.         *)
(* Frequencies are integers in micro-hertz.                                 *)

PerHz == 1000 * 1000

\* A limit of 6 Hz.
WideLimit == 6 * PerHz

\* The hard limit on how far the estimate may get from initial_fs.
LIM == 5 * PerHz

\* The defaults of the signature.
DefaultStopCrit == PerHz \div 100

DefaultTarget == 50 * PerHz

DefaultMaxIts == 50

\* Largest max_its of the calls whose fits are arbitrary.
MaxIts == 3

\* for _ in range(max_its): one more iteration after `done` of them?
loop_through_max(done, max_its) == done <= max_its

loop_continues(done, max_its) == done < max_its

\* np.abs(sfreq - initial_fs) > LIM
drifted(sf, initial_fs) == Abs(sf - initial_fs) > LIM

\* np.abs(peak_center - target_line_freq) < unc_stop_crit
stopping_met_or_equal(pc, target, crit) == Abs(pc - target) <= crit

stopping_met(pc, target, crit) == Abs(pc - target) < crit

\* A step of twelve times the peak error.
overcorrected(sf, pc, target) == sf - 12 * (pc - target)

\* sfreq -= dif / 2
adjusted(sf, pc, target) == sf - ((pc - target) \div 2)

\* Where the fits of an arbitrary recording put the peak, relative to the
\* target: below, at, just inside, on and just outside the default stopping
\* criterion, and far enough to carry the estimate up to or over the limit.
PeakOffsets ==
    {0 - 4 * PerHz, 0, 9000, 10000, 11000, 4 * PerHz, 9996000, 10 * PerHz, 12 * PerHz}

\* res.peak_params.ravel() of the fit made with the estimate sf: no entry
\* when no peak is found, else the centre of the one peak first. A clean
\* line at `line` Hz in a recording sampled at fs_true shows at
\* line * sf / fs_true when the recording is read at sf.
Fit(ts, sf, target) ==
    CASE ts.kind = "clean line" -> {<<sf \div (ts.fs_true \div ts.line)>>}
      [] ts.kind = "no line" -> {<<>>}
      [] OTHER -> {<<>>} \cup {<<target + d>> : d \in PeakOffsets}

\* fit_sfreq is running, called directly or by fit_mne_sfreq.
FitCall == call.op \in {"fit_sfreq", "fit_mne_sfreq"}

Running == FitCall /\ outcome = NoOutcome

RuntimeError(m) == [kind |-> "RuntimeError", msg |-> m]

\* What the fit of the iteration in progress may give.
Results == IF Running THEN Fit(timeseries, sfreq, call.target_line_freq) ELSE {}

\* A fit without a peak is passed over: the loop goes on with the estimate
\* it had.
after_fit_skipping(r, sf, pc, i, target) ==
    IF Len(r) = 0
    THEN [outcome |-> NoOutcome, sfreq |-> sf, peak_center |-> pc, it |-> i + 1]
    ELSE [outcome |-> NoOutcome, sfreq |-> adjusted(sf, r[1], target),
          peak_center |-> r[1], it |-> i + 1]

\* Lines 477-490: what follows the fit that gave r in iteration i.
after_fit(r, sf, pc, i, target) ==
    IF Len(r) = 0
    THEN [outcome |-> RuntimeError("could not fit the line noise"),
          sfreq |-> sf, peak_center |-> pc, it |-> i]
    ELSE [outcome |-> NoOutcome, sfreq |-> adjusted(sf, r[1], target),
          peak_center |-> r[1], it |-> i + 1]

\* Lines 420-421: the call starts.
FitSfreq(initial_fs, crit, target, max_its) ==
    /\ Idle
    /\ timeseries # NoRecording
    /\ call' = [op |-> "fit_sfreq", initial_fs |-> initial_fs, unc_stop_crit |-> crit,
                target_line_freq |-> target, max_its |-> max_its]
    /\ outcome' = NoOutcome
    /\ sfreq' = initial_fs
    /\ peak_center' = Inf
    /\ it' = 0
    /\ fits' = 0
    /\ res' = <<>>
    /\ UNCHANGED <<p_, q_, freq, psd, cache, timeseries, info_sfreq>>

\* Lines 434-439: an iteration starts beyond the limit.
DriftExceeded ==
    /\ Running
    /\ loop_continues(it, call.max_its)
    /\ drifted(sfreq, call.initial_fs)
    /\ outcome' = RuntimeError("drifted more than 5 Hz")
    /\ UNCHANGED <<p_, q_, freq, psd, cache, call, calibration>>

\* Lines 445-446: an iteration starts within the limit with the criterion met.
Converged ==
    /\ Running
    /\ loop_continues(it, call.max_its)
    /\ ~drifted(sfreq, call.initial_fs)
    /\ stopping_met(peak_center, call.target_line_freq, call.unc_stop_crit)
    /\ outcome' = [kind |-> "value", value |-> sfreq]
    /\ UNCHANGED <<p_, q_, freq, psd, cache, call, calibration>>

\* Lines 453-490: the rest of the iteration, one fit and what follows it.
FitLine(r) ==
    /\ Running
    /\ loop_continues(it, call.max_its)
    /\ ~drifted(sfreq, call.initial_fs)
    /\ ~stopping_met(peak_center, call.target_line_freq, call.unc_stop_crit)
    /\ r \in Results
    /\ fits' = fits + 1
    /\ res' = r
    /\ LET a == after_fit(r, sfreq, peak_center, it, call.target_line_freq)
       IN  /\ outcome' = a.outcome
           /\ sfreq' = a.sfreq
           /\ peak_center' = a.peak_center
           /\ it' = a.it
    /\ UNCHANGED <<p_, q_, freq, psd, cache, call, timeseries, info_sfreq>>

\* Lines 492-497: the loop is over.
Exhausted ==
    /\ Running
    /\ ~loop_continues(it, call.max_its)
    /\ outcome' = RuntimeError("did not satisfy stopping criteria")
    /\ UNCHANGED <<p_, q_, freq, psd, cache, call, calibration>>

\* One step of a call in progress.
FitStep ==
    \/ DriftExceeded
    \/ Converged
    \/ \E r \in Results : FitLine(r)
    \/ Exhausted

\* A caller with a recording and no spectrum.
InitFit(recordings) ==
    /\ freq = <<>>
    /\ psd = <<>>
    /\ cache = EmptyCache
    /\ p_ = 0
    /\ q_ = 0
    /\ call = NoCall
    /\ outcome = NoOutcome
    /\ timeseries \in recordings
    /\ sfreq = 0
    /\ peak_center = Inf
    /\ it = 0
    /\ fits = 0
    /\ res = <<>>
    /\ info_sfreq = 0

InitialRates == {250 * PerHz, 500 * PerHz}

NextFit ==
    \/ \E fs \in InitialRates, m \in 0..MaxIts :
            FitSfreq(fs, DefaultStopCrit, DefaultTarget, m)
    \/ DriftExceeded
    \/ Converged
    \/ \E r \in Results : FitLine(r)
    \/ Exhausted
    \/ Return

\* Calls of fit_sfreq on a recording whose fits may give anything.
SpecFit == InitFit({[kind |-> "any"]}) /\ [][NextFit]_vars

\* The loop is synchronous: a call in progress takes its next step.
SpecFitLive == SpecFit /\ WF_vars(FitStep)

\* Recordings with a clean mains line, sampled at 250 Hz and at 500 Hz.
CleanLines ==
    {[kind |-> "clean line", fs_true |-> r * DefaultTarget, line |-> DefaultTarget] :
        r \in {5, 10}}

\* How far initial_fs is from the true rate.
RateErrors ==
    {s * d : s \in {0 - 1, 1},
             d \in {0, PerHz \div 2, PerHz, 2 * PerHz, LIM, LIM + 40000, LIM + 200000,
                    6 * PerHz, 20 * PerHz}}

NextCleanLine ==
    \/ \E e \in RateErrors :
            FitSfreq(timeseries.fs_true + e, DefaultStopCrit, DefaultTarget, DefaultMaxIts)
    \/ DriftExceeded
    \/ Converged
    \/ \E r \in Results : FitLine(r)
    \/ Exhausted
    \/ Return

\* Calls with the default arguments on the clean lines.
SpecCleanLine == InitFit(CleanLines) /\ [][NextCleanLine]_vars

---------------------------------------------------------------------------
(* fit_mne_sfreq and set_mne_info_sfreq: the sampling frequency stored in   *)
(* the recording.                                                           *)

\* The last estimate of the loop is stored, however the loop ended.
store_estimate(stored, out) == sfreq

\* Lines 366-378 and 510-513: the stored rate once fit_sfreq has ended with
\* out. An exception leaves fit_mne_sfreq at line 366; float(sfreq) of line
\* 510 keeps the value of the float it is given.
info_after(stored, out) == IF out.kind = "value" THEN out.value ELSE stored

\* Lines 364-375: fit_mne_sfreq calls fit_sfreq with the stored rate.
FitMneSfreq(crit, target, max_its) ==
    /\ Idle
    /\ timeseries # NoRecording
    /\ info_sfreq # 0
    /\ call' = [op |-> "fit_mne_sfreq", initial_fs |-> info_sfreq, unc_stop_crit |-> crit,
                target_line_freq |-> target, max_its |-> max_its]
    /\ outcome' = NoOutcome
    /\ sfreq' = info_sfreq
    /\ peak_center' = Inf
    /\ it' = 0
    /\ fits' = 0
    /\ res' = <<>>
    /\ UNCHANGED <<p_, q_, freq, psd, cache, timeseries, info_sfreq>>

\* Lines 376-378: fit_sfreq has ended; fit_mne_sfreq stores the rate and
\* returns the recording, or lets the exception through.
ReturnRaw ==
    /\ call.op = "fit_mne_sfreq"
    /\ outcome # NoOutcome
    /\ info_sfreq' = info_after(info_sfreq, outcome)
    /\ call' = NoCall
    /\ outcome' = NoOutcome
    /\ UNCHANGED <<p_, q_, freq, psd, cache, timeseries, sfreq, peak_center, it, fits, res>>

\* Lines 500-515: set_mne_info_sfreq called by itself.
SetMneInfoSfreq(new_sfreq) ==
    /\ Idle
    /\ info_sfreq # 0
    /\ info_sfreq' = new_sfreq
    /\ UNCHANGED <<p_, q_, freq, psd, cache, call, outcome, timeseries, sfreq, peak_center, it,
                   fits, res>>

\* A recording without a mains line (notch filtered).
NoLine == [kind |-> "no line", fs_true |-> 5 * DefaultTarget, line |-> DefaultTarget]

\* The rates a recording is stored with.
StoredRates(ts) == {ts.fs_true + e : e \in RateErrors}

\* max_its of the calls of fit_mne_sfreq: the default and the 2 of the tests.
RawMaxIts == {2, DefaultMaxIts}

InitRaw ==
    /\ freq = <<>>
    /\ psd = <<>>
    /\ cache = EmptyCache
    /\ p_ = 0
    /\ q_ = 0
    /\ call = NoCall
    /\ outcome = NoOutcome
    /\ timeseries \in CleanLines \cup {NoLine}
    /\ info_sfreq \in StoredRates(timeseries)
    /\ sfreq = 0
    /\ peak_center = Inf
    /\ it = 0
    /\ fits = 0
    /\ res = <<>>

NextRaw ==
    \/ \E m \in RawMaxIts : FitMneSfreq(DefaultStopCrit, DefaultTarget, m)
    \/ DriftExceeded
    \/ Converged
    \/ \E r \in Results : FitLine(r)
    \/ Exhausted
    \/ ReturnRaw
    \/ \E x \in StoredRates(timeseries) : SetMneInfoSfreq(x)

\* Calls of fit_mne_sfreq and set_mne_info_sfreq on one recording.
SpecRaw == InitRaw /\ [][NextRaw]_vars

---------------------------------------------------------------------------
(* _calc_fpr_normal_threshold pass by pass.                                 *)

\* q_ once binom.pmf has been given a p outside [0, 1]: not a number.
NaN == 0 - 1

\* Line 237: abs(dif) > stopping_crit, false when dif is not a number.
loop_test(q, alpha) == q # NaN /\ Abs(q - alpha) > StoppingCrit

ThresholdCall == call.op = "_calc_fpr_normal_threshold"

Iterating == ThresholdCall /\ outcome = NoOutcome

\* Line 249: norm.ppf(1 - p), not a number when q_ is not.
threshold_result(pp, q) ==
    IF q = NaN THEN [kind |-> "nan", z |-> 0, p |-> pp]
    ELSE [kind |-> "ok", z |-> norm_ppf_upper(pp), p |-> pp]

\* Lines 207-236: the call starts; functools.cache answers a key it holds.
CalcFprNormalThreshold(a, n) ==
    /\ Idle
    /\ LET hit == <<a, n>> \in DOMAIN cache
       IN  /\ call' = [op |-> "_calc_fpr_normal_threshold", alpha |-> a, n |-> n,
                       cached |-> hit]
           /\ IF hit
              THEN /\ outcome' = cache[<<a, n>>]
                   /\ p_' = 0
                   /\ q_' = 0
              ELSE /\ outcome' = NoOutcome
                   /\ p_' = AlphaFix(a)
                   /\ q_' = Scale - binom_pmf0(n, AlphaFix(a))
    /\ UNCHANGED <<freq, psd, cache, calibration>>

\* Lines 237-244: one pass of the while loop. p * p / q_ is taken first, then
\* the new p, then the new q_; binom.pmf of a p outside (0, 1) is not a
\* number.
Correct ==
    /\ Iterating
    /\ loop_test(q_, AlphaFix(call.alpha))
    /\ \E step \in {IF q_ > 0 THEN SqDiv(p_, q_) ELSE Scale} :
       \E p2 \in {IF q_ - AlphaFix(call.alpha) > 0 THEN p_ - step ELSE p_ + step} :
            /\ p_' = p2
            /\ q_' = IF 0 < p2 /\ p2 < Scale THEN Scale - binom_pmf0(call.n, p2) ELSE NaN
    /\ UNCHANGED <<freq, psd, cache, call, outcome, calibration>>

\* Line 249: the loop is left; the result is returned and memoised.
Finish ==
    /\ Iterating
    /\ ~loop_test(q_, AlphaFix(call.alpha))
    /\ outcome' = threshold_result(p_, q_)
    /\ cache' = [k \in DOMAIN cache \cup {<<call.alpha, call.n>>} |->
                    IF k = <<call.alpha, call.n>> THEN threshold_result(p_, q_)
                    ELSE cache[k]]
    /\ UNCHANGED <<p_, q_, freq, psd, call, calibration>>

\* alpha in thousandths, and the number of bins n.
ThresholdAlphas == {10, 500, 900}

ThresholdSizes == {1, 2, 10}

SmallSizes == {1, 2}

CallsOf(sizes) ==
    \/ \E a \in ThresholdAlphas, n \in sizes : CalcFprNormalThreshold(a, n)
    \/ Correct
    \/ Finish
    \/ Return

NextThreshold == CallsOf(ThresholdSizes)

NextSmall == CallsOf(SmallSizes)

InitThreshold ==
    /\ freq = <<>>
    /\ psd = <<>>
    /\ cache = EmptyCache
    /\ p_ = 0
    /\ q_ = 0
    /\ call = NoCall
    /\ outcome = NoOutcome
    /\ NoCalibration

\* Calls of _calc_fpr_normal_threshold alone.
SpecThreshold == InitThreshold /\ [][NextThreshold]_vars

\* Calls over the small windows; the loop is synchronous, so a call in
\* progress takes its next step.
SpecThresholdLive == InitThreshold /\ [][NextSmall]_vars /\ WF_vars(Correct \/ Finish)

---------------------------------------------------------------------------
(* The call in progress, described from the state alone.                    *)

PeakCall == call.op = "find_peak"

\* The bins nearest to the frequency asked for, and the lowest of them.
NearestBins ==
    {i \in 0..(Len(freq) - 1) :
        \A j \in 0..(Len(freq) - 1) :
            Abs(At(freq, i) - call.peak_freq) <= Abs(At(freq, j) - call.peak_freq)}

NearestBin == CHOOSE i \in NearestBins : \A j \in NearestBins : i <= j

\* What the call searches: the nearest bin e, the half-width s, the window
\* bins e - s .. e + s - 1 and whether psd holds them all, the window values w,
\* whether the threshold computation ends so that the peak search runs, and
\* the window indices of the local maxima, all and those reaching the threshold.
Search ==
    LET e == NearestBin
        s == search_samples(freq, call.search_width)
        inside == s > 0 /\ \A k \in 0..(2 * s - 1) : InRange(psd, e - s + k)
        w == IF inside THEN [k \in 1..(2 * s) |-> PyAt(psd, e - s + k - 1)] ELSE <<>>
        thr == IF inside THEN FprTable[<<call.alpha, 2 * s>>] ELSE [kind |-> "unused"]
        runs == inside /\ thr.kind = "ok"
    IN  [e |-> e, s |-> s, w |-> w, runs |-> runs,
         maxima |-> IF runs THEN local_maxima(w) ELSE {},
         qualifying |-> IF runs THEN qualifying_peaks(w, thr) ELSE {}]

Returned(v) == outcome = [kind |-> "value", value |-> v]

OffGrid == \A i \in 1..Len(freq) : freq[i] # call.peak_freq

\* C1: find_peak honours the caller's search_width: the half-width of the
\* window in bins is floor(search_width / (freq[1] - freq[0])) for the value
\* the caller passes.
C1_HonoursSearchWidth ==
    PeakCall =>
        search_samples(freq, call.search_width)
            = call.search_width \div freq_resolution(freq)

\* C2: find_peak ends with the configuration error exactly when
\* floor(search_width / freq_resolution) <= 0 for the caller's search_width.
C2_ConfigurationErrorExactly ==
    PeakCall =>
        (outcome.kind = "ValueError"
            <=> call.search_width \div freq_resolution(freq) <= 0)

\* C3: when the peak search runs and no local maximum of the window reaches
\* the threshold, find_peak returns the frequency of the lowest-index bin
\* nearest to peak_freq, and no error.
C3_FallbackToNearestBin ==
    PeakCall =>
        LET S == Search
        IN  (S.runs /\ S.qualifying = {}) => Returned(At(freq, S.e))

\* A fallback with a local maximum below the threshold and two nearest bins.
C3_Witness ==
    /\ PeakCall
    /\ Cardinality(NearestBins) = 2
    /\ LET S == Search
       IN  /\ S.runs
           /\ S.qualifying = {}
           /\ S.maxima # {}
           /\ Returned(At(freq, S.e))

\* C4: when local maxima of the window reach the threshold, find_peak returns
\* the frequency at index exp_peak_idx - search_samples + i, for a qualifying
\* window index i of greatest height.
C4_HighestQualifyingPeak ==
    PeakCall =>
        LET S == Search
        IN  (S.runs /\ S.qualifying # {}) =>
                \E i \in S.qualifying :
                    /\ \A j \in S.qualifying : At(S.w, j) <= At(S.w, i)
                    /\ Returned(PyAt(freq, S.e - S.s + i))

\* Two qualifying peaks, the lower one first, in a window that does not wrap.
C4_Witness ==
    /\ PeakCall
    /\ outcome.kind = "value"
    /\ LET S == Search
       IN  /\ S.runs
           /\ S.e - S.s >= 0
           /\ \E i, j \in S.qualifying : i < j /\ At(S.w, i) < At(S.w, j)

\* C5: whenever find_peak returns, the value is an element of freq.
C5_ReturnsAFrequencyBin ==
    (PeakCall /\ outcome.kind = "value") =>
        \E i \in 1..Len(freq) : freq[i] = outcome.value

\* A detected peak returned for a peak_freq that is not itself a bin.
C5_Witness ==
    /\ PeakCall
    /\ outcome.kind = "value"
    /\ OffGrid
    /\ outcome.value # call.peak_freq
    /\ Search.qualifying # {}

\* No bin of window w around bin e, half-width s, other than e is as high as e.
NominalIsStrictMax(e, s, w) ==
    \A k \in 0..(2 * s - 1) : k # s => At(w, k) < At(psd, e)

ScenarioCall ==
    /\ PeakCall
    /\ freq = ScenarioFreq
    /\ psd = ScenarioPsd
    /\ call.peak_freq = 40 * 1000
    /\ call.search_width = 500
    /\ call.alpha = 10

\* C6: when the bin nearest to peak_freq holds the strict maximum of the
\* window, find_peak returns that bin's frequency, by detection or by
\* fallback; the call of the concrete scenario returns 40.0 Hz.
C6_StrictMaxAtNominalBin ==
    /\ PeakCall =>
          LET S == Search
          IN  (S.runs /\ NominalIsStrictMax(S.e, S.s, S.w)) => Returned(At(freq, S.e))
    /\ ScenarioCall => Returned(40 * 1000)

\* The call of the concrete scenario, ended.
C6_Witness ==
    /\ ScenarioCall
    /\ Returned(40 * 1000)
    /\ LET S == Search
       IN  S.runs /\ NominalIsStrictMax(S.e, S.s, S.w)

\* Window index k of window w around bin e, half-width s, holds the only
\* raised value of the spectrum, away from e and from both ends of the window.
LoneSpike(e, s, w, k) ==
    /\ 0 < k /\ k < 2 * s - 1
    /\ k # s
    /\ e - s + k >= 0
    /\ \A i \in 0..(Len(psd) - 1) :
          i # e - s + k => At(psd, i) < At(w, k) /\ At(psd, i) = At(psd, e)

\* C7: a lone peak at an interior bin of the window other than the nearest
\* bin is returned instead of the nearest bin, whatever the window size.
C7_DriftTolerance ==
    PeakCall =>
        LET S == Search
        IN  S.runs =>
                \A k \in 0..(2 * S.s - 1) :
                    LoneSpike(S.e, S.s, S.w, k) => Returned(At(freq, S.e - S.s + k))

---------------------------------------------------------------------------
(* The estimators, described from the state alone.                          *)

RECURSIVE SumAt(_, _)
SumAt(p, S) ==
    IF S = {} THEN 0
    ELSE LET i == CHOOSE i \in S : TRUE IN At(p, i) + SumAt(p, S \ {i})

RECURSIVE SumSqAt(_, _)
SumSqAt(p, S) ==
    IF S = {} THEN 0
    ELSE LET i == CHOOSE i \in S : TRUE IN At(p, i) * At(p, i) + SumSqAt(p, S \ {i})

\* Every bin but the nearest one; S, m * mu and m * m * sigma^2 over them.
OtherBins == (0..(Len(freq) - 1)) \ {NearestBin}

PeakValue == At(psd, NearestBin)

NoiseSum == SumAt(psd, OtherBins)

NoiseSpread ==
    Cardinality(OtherBins) * SumSqAt(psd, OtherBins) - NoiseSum * NoiseSum

\* C8: cnr is (S - mu) / sigma with S the value at the bin nearest peak_freq
\* and mu, sigma the mean and population standard deviation of all other
\* bins: (m * S - sum) / sqrt(m * sumsq - sum^2) over the m other bins.
C8_ContrastOverAllOtherBins ==
    (call.op = "cnr" /\ NoiseSpread # 0) =>
        Returned([num |-> Cardinality(OtherBins) * PeakValue - NoiseSum,
                  rad |-> NoiseSpread])

\* A contrast of a raised peak bin over noise with a raised bin of its own.
C8_Witness ==
    /\ call.op = "cnr"
    /\ outcome.kind = "value"
    /\ PeakValue > 1
    /\ \E i \in OtherBins : At(psd, i) > 1
    /\ outcome.value.num > 0

ContrastCall == call.op \in {"cnr", "cnr_by_band"}

ContrastFreq ==
    IF call.op = "cnr" THEN freq ELSE in_band(freq, freq, call.band_limits)

ContrastPsd ==
    IF call.op = "cnr" THEN psd ELSE in_band(psd, freq, call.band_limits)

FlatNoise ==
    /\ Len(ContrastFreq) >= 2
    /\ LET e == argmin_abs_diff(ContrastFreq, call.peak_freq)
       IN  \A i, j \in (0..(Len(ContrastPsd) - 1)) \ {e} :
               At(ContrastPsd, i) = At(ContrastPsd, j)

Raised == {"ValueError", "IndexError", "ZeroDivisionError", "DegenerateNoiseError"}

\* C10: cnr and cnr_by_band end with an error and no value whenever the
\* standard deviation of the noise bins is 0.
C10_DegenerateNoiseFails ==
    (ContrastCall /\ FlatNoise) => outcome.kind \in Raised

\* C11: snr and snr_by_band end with an error and no value whenever the mean
\* of the noise bins is 0 or below; no negative or infinite ratio is returned.
C11_NonPositiveNoiseMeanFails ==
    call.op = "snr" =>
        /\ NoiseSum <= 0 => outcome.kind \in Raised
        /\ outcome.kind \notin {"inf", "-inf"}
        /\ outcome.kind = "value" => outcome.value.num * outcome.value.den >= 0

\* The bins inside the band limits of the call, both limits included, and the
\* values an array holds at them, in the order of the bins.
BandBins ==
    {i \in 0..(Len(freq) - 1) :
        call.band_limits[1] <= At(freq, i) /\ At(freq, i) <= call.band_limits[2]}

SubSpectrum(a) ==
    [k \in 1..Cardinality(BandBins) |->
        At(a, CHOOSE i \in BandBins : Cardinality({j \in BandBins : j < i}) = k - 1)]

\* C12: cnr_by_band gives what cnr gives on the sub-spectrum of the bins with
\* lo <= f <= hi, in their order, with the same peak_freq; snr_by_band gives
\* what snr gives on it (in either build).
C12_ByBandIsEstimatorOnSubSpectrum ==
    /\ call.op = "cnr_by_band" =>
          outcome \in {cnr(SubSpectrum(freq), SubSpectrum(psd), call.peak_freq, b) :
                          b \in BOOLEAN}
    /\ call.op = "snr_by_band" =>
          outcome \in {snr(SubSpectrum(freq), SubSpectrum(psd), call.peak_freq, b) :
                          b \in BOOLEAN}

\* A contrast over a band of five bins with both limits on bins, the peak
\* frequency inside it and a raised bin outside it.
C12_Witness ==
    /\ call.op = "cnr_by_band"
    /\ outcome.kind = "value"
    /\ Cardinality(BandBins) = 5
    /\ \E i, j \in BandBins :
          At(freq, i) = call.band_limits[1] /\ At(freq, j) = call.band_limits[2]
    /\ \E i \in BandBins : At(freq, i) = call.peak_freq
    /\ \E i \in (0..(Len(freq) - 1)) \ BandBins : At(psd, i) > 1

\* Every cached entry is what a fresh computation for its key gives, and the
\* call in progress ended as it ends with freshly computed thresholds.
CacheIsFresh ==
    /\ \A k \in DOMAIN cache : cache[k] = FprTable[k]
    /\ PeakCall =>
          LET asks == asks_threshold(freq, psd, call.peak_freq, call.search_width)
              n == 2 * search_samples(freq, call.search_width)
              thr == IF asks THEN FprTable[<<call.alpha, n>>] ELSE [kind |-> "unused"]
          IN  outcome = find_peak(freq, psd, call.peak_freq, call.search_width, thr)

\* C13: a threshold call returns what the first call with its arguments and a
\* fresh computation return: a cached entry is never changed or evicted, and
\* the result of find_peak is the same with a cold and with a warm cache.
C13_CacheConsistent ==
    /\ [](CacheIsFresh)
    /\ [][\A k \in DOMAIN cache : k \in DOMAIN cache' /\ cache'[k] = cache[k]]_vars

\* A call ended with the thresholds of both alpha values in the cache.
C13_Witness ==
    /\ PeakCall
    /\ outcome.kind = "value"
    /\ Cardinality(DOMAIN cache) = 2
    /\ <<call.alpha, 2 * search_samples(freq, call.search_width)>> \in DOMAIN cache

---------------------------------------------------------------------------
(* fit_sfreq                                                                *)

Ended == FitCall /\ outcome # NoOutcome

Failed(m) == FitCall /\ outcome = RuntimeError(m)

ReturnedRate == FitCall /\ outcome.kind = "value"

\* The four ways a call ends.
TerminalOutcomes ==
    {[kind |-> "value", value |-> sfreq],
     RuntimeError("drifted more than 5 Hz"),
     RuntimeError("could not fit the line noise"),
     RuntimeError("did not satisfy stopping criteria")}

\* C15: every call of fit_sfreq ends, after at most max_its fits, in exactly
\* one of four outcomes (a returned rate, the drift error, the line-noise
\* error, the stopping-criteria error), and once it has ended no fit or
\* update of the estimate follows.
C15_EndsWithinMaxIts ==
    /\ [](FitCall => /\ fits <= call.max_its
                     /\ it <= call.max_its
                     /\ outcome = NoOutcome \/ outcome \in TerminalOutcomes)
    /\ [][Ended => /\ calibration' = calibration
                   /\ call' = call => outcome' = outcome]_vars
    /\ (Running ~> Ended)

C15_Witness ==
    /\ Failed("did not satisfy stopping criteria")
    /\ call.max_its = MaxIts
    /\ fits = MaxIts

\* An iteration of the call in progress starts in this state.
IterationStarts == Running /\ it < call.max_its

\* C16: no fit is made and no rate is returned while the estimate is more
\* than 5 Hz from initial_fs; every returned rate is within 5 Hz of
\* initial_fs; an iteration that starts over the limit with the stopping
\* criterion met ends in the drift error.
C16_DriftLimit ==
    /\ [](ReturnedRate => Abs(outcome.value - call.initial_fs) <= 5 * PerHz)
    /\ [][/\ (Running /\ fits' = fits + 1) =>
                Abs(sfreq - call.initial_fs) <= 5 * PerHz
          /\ (Running /\ outcome'.kind = "value") =>
                Abs(sfreq - call.initial_fs) <= 5 * PerHz
          /\ (/\ IterationStarts
              /\ Abs(sfreq - call.initial_fs) > 5 * PerHz
              /\ Abs(peak_center - call.target_line_freq) < call.unc_stop_crit) =>
                outcome' = RuntimeError("drifted more than 5 Hz")]_vars

C16_Witness ==
    /\ Failed("drifted more than 5 Hz")
    /\ it < call.max_its
    /\ Abs(sfreq - call.initial_fs) > 5 * PerHz
    /\ Abs(peak_center - call.target_line_freq) < call.unc_stop_crit

\* C17: fit_sfreq returns a rate only after at least one fit of the call, and
\* only when the centre of the most recent fitted peak is strictly closer to
\* target_line_freq than unc_stop_crit; the rate returned is the current
\* estimate.
C17_ReturnsOnlyAfterAFitWithinCriterion ==
    ReturnedRate =>
        /\ fits >= 1
        /\ peak_center # Inf
        /\ Abs(peak_center - call.target_line_freq) < call.unc_stop_crit
        /\ outcome.value = sfreq

C17_Witness ==
    /\ ReturnedRate
    /\ fits = 2
    /\ outcome.value # call.initial_fs
    /\ peak_center = call.target_line_freq + 9000

\* C18: when fit_sfreq fails with the stopping-criteria error it has made
\* max_its fits and the final peak_center it reports is not within
\* unc_stop_crit of target_line_freq.
C18_FailureOnlyWithoutConvergence ==
    Failed("did not satisfy stopping criteria") =>
        /\ fits = call.max_its
        /\ ~(Abs(peak_center - call.target_line_freq) < call.unc_stop_crit)

\* A call on a recording with a clean line, and how far its initial_fs is
\* from the true rate.
CleanCall == FitCall /\ timeseries.kind = "clean line"

NeededCorrection == Abs(call.initial_fs - timeseries.fs_true)

\* unc_stop_crit carried from the line to the sampling rate.
RateAccuracy == call.unc_stop_crit * (timeseries.fs_true \div call.target_line_freq)

\* C19: on a recording with a clean line, with initial_fs within 5 Hz of the
\* true rate and the default unc_stop_crit and max_its, fit_sfreq ends by
\* returning a rate, and that rate is within the accuracy equivalent to
\* unc_stop_crit of the true rate.
C19_ConvergesWithinFiveHz ==
    (CleanCall /\ Ended /\ NeededCorrection <= 5 * PerHz) =>
        /\ outcome.kind = "value"
        /\ Abs(outcome.value - timeseries.fs_true) <= RateAccuracy

\* C20: on a recording whose line needs a correction of the sampling rate of
\* more than 5 Hz to reach target_line_freq, fit_sfreq returns no rate: it
\* ends in the drift error.
C20_DriftRejected ==
    (CleanCall /\ Ended /\ NeededCorrection > 5 * PerHz) =>
        Failed("drifted more than 5 Hz")

\* The most recent fit of the call found no peak.
ZeroPeaks == FitCall /\ fits >= 1 /\ Len(res) = 0

\* C21: a fit that yields zero peaks ends the call with the line-noise error
\* in the same iteration: the estimate and the peak centre are not updated
\* from that fit, no later fit is made and no value is returned.
C21_ZeroPeaksFailAtOnce ==
    /\ [](ZeroPeaks => Failed("could not fit the line noise"))
    /\ [][(Running /\ fits' = fits + 1 /\ Len(res') = 0) =>
            /\ sfreq' = sfreq
            /\ peak_center' = peak_center
            /\ it' = it
            /\ outcome' = RuntimeError("could not fit the line noise")]_vars
    /\ [][ZeroPeaks =>
            /\ calibration' = calibration
            /\ outcome' = outcome \/ (call' = NoCall /\ outcome' = NoOutcome)]_vars

C21_Witness ==
    /\ ZeroPeaks
    /\ fits = 3
    /\ it = 2
    /\ sfreq # call.initial_fs
    /\ Failed("could not fit the line noise")

RawCall == call.op = "fit_mne_sfreq"

\* C22: a calibration that fails (drift, line-noise fit, stopping criteria)
\* leaves the stored sampling frequency of the recording as it was; one that
\* succeeds stores exactly the rate fit_sfreq returned; nothing is stored
\* while the calibration runs.
C22_StoredRateOnlyOnSuccess ==
    [][RawCall =>
        IF call' = NoCall
        THEN IF outcome.kind = "value"
             THEN info_sfreq' = outcome.value
             ELSE info_sfreq' = info_sfreq
        ELSE info_sfreq' = info_sfreq /\ info_sfreq = call.initial_fs]_vars

\* A calibration has ended in an error after moving its estimate.
C22_Witness ==
    /\ RawCall
    /\ outcome.kind = "RuntimeError"
    /\ fits >= 2
    /\ sfreq # info_sfreq

---------------------------------------------------------------------------
(* _calc_fpr_normal_threshold                                               *)

\* C23: every call of _calc_fpr_normal_threshold leaves its correction loop
\* and ends, for every alpha and n.
C23_CorrectionLoopEnds == Iterating ~> (ThresholdCall /\ outcome # NoOutcome)

\* The loop of the call has run or is running (the result did not come from
\* the cache).
Computed == ThresholdCall /\ ~call.cached

\* C30: throughout the iteration the per-bin probability p stays in
\* (0, alpha], so the threshold returned is never below the uncorrected
\* single-bin threshold norm.ppf(1 - alpha).
C30_ProbabilityStaysBelowAlpha ==
    Computed =>
        /\ 0 < p_
        /\ p_ <= AlphaFix(call.alpha)
        /\ outcome # NoOutcome =>
                /\ outcome.kind = "ok"
                /\ outcome.z >= norm_ppf_upper(AlphaFix(call.alpha))

Sign(x) == IF x > 0 THEN 1 ELSE IF x < 0 THEN 0 - 1 ELSE 0

\* C24: on a recording with a clean line (the fitted peak is proportional to
\* the rate assumed), each update of the estimate leaves it on the same side
\* of the true rate and no further from it.
C24_NoOvershoot ==
    [][(CleanCall /\ Running /\ it' = it + 1) =>
        /\ Sign(sfreq' - timeseries.fs_true) = Sign(sfreq - timeseries.fs_true)
        /\ Abs(sfreq' - timeseries.fs_true) <= Abs(sfreq - timeseries.fs_true)]_vars

C24_Witness ==
    /\ CleanCall
    /\ fits >= 2
    /\ call.initial_fs < sfreq
    /\ sfreq < timeseries.fs_true

---------------------------------------------------------------------------
(* find_peak at the ends of the array, and with the estimators.             *)

\* C25: the frequency find_peak returns is that of a bin at most
\* search_samples bins from the bin nearest peak_freq, wherever that bin
\* lies in the array.
C25_ReturnedBinNearNominal ==
    (PeakCall /\ outcome.kind = "value") =>
        LET S == Search
        IN  \E i \in 0..(Len(freq) - 1) :
                /\ Abs(i - S.e) <= S.s
                /\ At(freq, i) = outcome.value

\* C26: with peak_freq within [freq.min(), freq.max()] and search_samples > 0,
\* find_peak returns a frequency, also when the bin nearest peak_freq is
\* fewer than search_samples bins from the end of the array. (A call whose
\* threshold computation does not end is left aside here.)
C26_OnlyConfigurationErrorFails ==
    (/\ PeakCall
     /\ At(freq, 0) <= call.peak_freq
     /\ call.peak_freq <= At(freq, Len(freq) - 1)
     /\ search_samples(freq, call.search_width) > 0) =>
        outcome.kind \in {"value", "hang"}

\* Bin b holds the only raised value of the spectrum.
OnlyRaised(b, e) ==
    \A i \in 0..(Len(psd) - 1) :
        i # b => At(psd, i) < At(psd, b) /\ At(psd, i) = At(psd, e)

\* The spectrum reflected about bin e; a bin whose image lies outside the
\* array takes the level of bin e.
MirroredPsd(e) ==
    [i \in 1..Len(psd) |->
        IF InRange(psd, 2 * e - (i - 1)) /\ 2 * e - (i - 1) >= 0
        THEN At(psd, 2 * e - (i - 1))
        ELSE At(psd, e)]

\* C27: detection is symmetric about the bin nearest peak_freq: for
\* 1 <= k <= search_samples - 1, a lone peak k bins above that bin is
\* returned exactly when, on the mirrored spectrum, the peak k bins below it
\* is returned.
C27_SymmetricAboutNominal ==
    PeakCall =>
        LET S == Search
        IN  S.runs =>
                \A k \in 1..(S.s - 1) :
                    (S.e - k >= 0 /\ S.e + k < Len(psd) /\ OnlyRaised(S.e + k, S.e)) =>
                        (Returned(At(freq, S.e + k))
                            <=> find_peak(freq, MirroredPsd(S.e), call.peak_freq,
                                          call.search_width,
                                          FprTable[<<call.alpha, 2 * S.s>>])
                                    = [kind |-> "value", value |-> At(freq, S.e - k)])

StrictlyIncreasing(f) == \A i \in 1..(Len(f) - 1) : f[i] < f[i + 1]

\* The bin find_peak selected as the peak bin, as an index from the start of
\* the array: the highest qualifying peak of the window, or the nominal bin.
SelectedBin ==
    LET S == Search
        b == IF S.qualifying # {}
             THEN S.e - S.s + highest_peak(S.w, S.qualifying)
             ELSE S.e
    IN  IF b < 0 THEN Len(freq) + b ELSE b

\* C28: for a strictly increasing frequency array, passing the frequency
\* returned by find_peak to cnr or snr on the same spectrum makes them use
\* exactly the bin find_peak selected as the peak bin, and leave exactly that
\* bin out of the noise statistics.
C28_EstimatorsUseSelectedBin ==
    (PeakCall /\ outcome.kind = "value" /\ StrictlyIncreasing(freq)) =>
        LET b == SelectedBin
            m == Len(psd) - 1
            noise_sum == SumSeq(psd) - At(psd, b)
        IN  /\ argmin_abs_diff(freq, outcome.value) = b
            /\ \A numba \in BOOLEAN :
                LET c == cnr(freq, psd, outcome.value, numba)
                    r == snr(freq, psd, outcome.value, numba)
                IN  /\ c.kind = "value" => c.value.num = m * At(psd, b) - noise_sum
                    /\ r.kind = "value" =>
                            r.value = [num |-> m * At(psd, b), den |-> noise_sum]

\* A detected peak away from the nominal bin, handed to both estimators.
C28_Witness ==
    /\ PeakCall
    /\ outcome.kind = "value"
    /\ StrictlyIncreasing(freq)
    /\ Search.qualifying # {}
    /\ SelectedBin # Search.e
    /\ cnr(freq, psd, outcome.value, FALSE).kind = "value"
    /\ snr(freq, psd, outcome.value, FALSE).kind = "value"

ByBandCall == call.op \in {"cnr_by_band", "snr_by_band"}

\* The bin of the full spectrum that the by-band estimators use as peak bin:
\* the bin of the band nearest to peak_freq.
BandPeakBin ==
    LET k == argmin_abs_diff(SubSpectrum(freq), call.peak_freq)
    IN  CHOOSE i \in BandBins : Cardinality({j \in BandBins : j < i}) = k

\* C29: for every peak_freq inside [band_min, band_max], cnr_by_band and
\* snr_by_band use as peak bin the bin nearest to peak_freq in the full
\* spectrum; and for every band they select a peak bin: no call ends with the
\* error of a selection among no bins.
C29_ByBandUsesNearestBinOfSpectrum ==
    (ByBandCall /\ outcome # NoOutcome) =>
        /\ outcome.kind # "ValueError"
        /\ (/\ call.band_limits[1] <= call.peak_freq
            /\ call.peak_freq <= call.band_limits[2]
            /\ BandBins # {})
                => BandPeakBin = argmin_abs_diff(freq, call.peak_freq)

====
